---- MODULE Spec2Model ----
(***************************************************************************)
(* Model of the gocassa connection pool (gocqlConnectionPool) and of the   *)
(* two gocqlExecutor implementations that live in the repository: the      *)
(* pool-backed executor (checkout / checkin around every statement) and    *)
(* the session-backed executor (one shared gocql session).                 *)
(*                                                                         *)
(* Threads: the callers of Query/Execute (1..NumCallers) and the           *)
(* config-watch goroutine (Watcher).  Every blocking point of the code     *)
(* (mutex acquisition, channel send/receive, select, network dial, a       *)
(* statement sent to the cluster) is the start of an action, so every      *)
(* interleaving the Go scheduler can produce is a behaviour of the model.  *)
(***************************************************************************)
EXTENDS Integers, Sequences, FiniteSets, TLC

\* ------------------------------------------------------------------ bounds
NumCallers == 2      \* concurrent callers of Query/Execute
NumCfgs    == 2      \* successive effective configurations of the keyspace
MaxConns   == 2      \* connections the driver dials successfully in a run

\* --------------------------------------------------------------- constants
Nil     == 0         \* nil *gocql.Conn / nil pool / nil session
NumKs   == 2         \* keyspace names asked of the registry
Free    == -1        \* mutex not held
Watcher == 0         \* thread id of the watchConfig goroutine
Callers == 1 .. NumCallers
Threads == {Watcher} \cup Callers
Hosts   == {"h1", "h2"}
NoHost  == "none"
Impls   == {"pool", "session"}
Keyspaces == 1 .. NumKs

\* ksConfig values the configuration service serves, in the order in which
\* they become current: hosts and cc.NumConns differ from one to the next.
cfgHosts(k) == IF k % 3 = 1 THEN {"h1"} ELSE IF k % 3 = 2 THEN {"h1", "h2"} ELSE {"h2"}
cfgNumConns(k) == IF k % 2 = 1 THEN 2 ELSE 1

\* ksConfig.hash(): content hash of the effective configuration.
hash(k) == IF k = 0 THEN 0
           ELSE 8 * cfgNumConns(k)
                + (IF "h1" \in cfgHosts(k) THEN 1 ELSE 0)
                + (IF "h2" \in cfgHosts(k) THEN 2 ELSE 0)

VARIABLES
    impl,          \* which executor implementation this run is about
    curCfg,        \* configuration currently held by the config service
    notify,        \* a change notification is pending for the watcher
    \* ---- gocqlExecutor
    initialised,   \* e.initialised
    initMtx,       \* holder of e.initMtx (write lock) or Free
    rwLock,        \* holder of the executor's embedded RWMutex (write) or Free
    pool,          \* e.pool (pool executor): pool id or Nil
    lastHash,      \* e.lastHash
    session,       \* e.session (session executor): session id or Nil
    cfg,           \* e.cfg (session executor)
    watchers,      \* number of watchConfig goroutines started
    initBuilds,    \* pools / sessions built by a switchConfig that init() called
    \* ---- pools ever constructed
    npools,        \* pools allocated so far (ids 1..npools)
    poolCfg,       \* p.Cfg
    poolInit,      \* p.init() has run
    hostConnsEstablished,
    hostConnsUnestablished,
    activeConns,   \* p.activeConns
    \* ---- driver connections and sessions
    nconns,        \* connections dialed so far (ids 1..nconns)
    closed,        \* connections for which Closed() is true
    connPool,      \* pool whose connect() dialed the connection
    connHost,      \* host the connection was dialed to
    nsessions,     \* sessions created so far
    sessClosed,    \* sessions that were closed
    \* ---- threads
    pc,            \* position of each thread
    newConfig,     \* argument of the switchConfig a thread is running
    localPool,     \* pool pointer a caller read under RLock
    hconn,         \* gocqlConnCheckout.conn of the caller's handle
    hhost,         \* gocqlConnCheckout.hpResp.Host()
    hmark,         \* outcome reported through hpResp.Mark
    logged,        \* which of checkout's final log lines the caller's checkout wrote
    qerr,          \* error of the statement the caller ran
    ret,           \* what the caller's last Query/Execute returned
    lastIn         \* per pool: the last check-in (connection, host, Size(), whether the
                   \* established queue was empty, whether its caller had the pool to
                   \* itself since its checkout) and the caller of the one checkout that
                   \* followed it, while nothing else has used the pool; and the caller
                   \* that has had the pool to itself since it started its checkout
VARIABLES
    trace,         \* what this run records: "off", "log" (wlog), "sess" (callSess) or
                   \* "in" (lastIn)
    wlog,          \* outcome of the watcher's latest reload: "loaderr" when the load
                   \* failed, else what it did with the loaded config
    pairs,         \* per caller: checkouts and check-ins of its current call
    callSess,      \* per caller: the per-call session of its current call
    wLastHash,     \* the watcher's local `lastHash`, read under RLock
    localSession,  \* session pointer a caller read under RLock
    \* ---- registry (gocqlConnector)
    ksConnections,     \* keyspace -> registered connection (executor) or Nil
    ksConnectionsMtx,  \* holder of the write lock or Free
    nexecs,            \* executors constructed so far (ids 1..nexecs)
    execKs,            \* keyspace each constructed executor was built for
    rpc,               \* position of each caller inside gocqlConnector
    rks,               \* keyspace the caller asked for
    rret               \* what the caller's last gocqlConnector call returned

execVars == <<initialised, initMtx, rwLock, pool, lastHash, session, cfg, watchers, initBuilds>>
poolVars == <<npools, poolCfg, poolInit, hostConnsEstablished, hostConnsUnestablished, activeConns>>
connVars == <<nconns, closed, connPool, connHost>>
sessVars == <<nsessions, sessClosed>>
handleVars == <<localPool, hconn, hhost, hmark, logged, qerr>>
envVars == <<impl, curCfg, notify>>
localVars == <<wLastHash, localSession>>
regVars == <<ksConnections, ksConnectionsMtx, nexecs, execKs, rpc, rks, rret>>
executorVars == <<envVars, execVars, poolVars, connVars, sessVars, pc, newConfig, handleVars, ret,
                  lastIn, trace, wlog, pairs, callSess, localVars>>
vars == <<envVars, execVars, poolVars, connVars, sessVars, pc, newConfig, handleVars, ret, lastIn,
          trace, wlog, pairs, callSess, localVars, regVars>>

PoolIds == 1 .. NumCfgs
ConnIds == 1 .. MaxConns
None == [conn |-> Nil, host |-> NoHost, size |-> 0, alone |-> FALSE, quiet |-> FALSE, by |-> 0,
         solo |-> 0]

\* ------------------------------------------------------------ pool helpers
\* cap() of the two channels of a host of pool p.
NumConns(p) == cfgNumConns(poolCfg[p])
PoolHosts(p) == cfgHosts(poolCfg[p])

\* gocqlConnectionPool.Size
Size(p) == Len(activeConns[p])

\* Callers that hold a pointer to pool p.
Using(p) == {t \in Callers : localPool[t] = p}

\* Callers that are inside checkout() on pool p.
InCheckout(p) == {t \in Callers : localPool[t] = p /\ pc[t] \in {"select1", "select2", "connect", "track", "putback"}}

\* Handles with a connection that were vended for host h of pool p and not
\* checked in yet.
CheckedOut(p, h) == {t \in Callers : localPool[t] = p /\ hhost[t] = h /\ hconn[t] # Nil
                                     /\ pc[t] \in {"use", "checkin"}}

InitState ==
    /\ impl \in Impls
    /\ curCfg = 1
    /\ notify = FALSE
    /\ initialised = FALSE
    /\ initMtx = Free
    /\ rwLock = Free
    /\ pool = Nil
    /\ lastHash = 0
    /\ session = Nil
    /\ cfg = 0
    /\ watchers = 0
    /\ initBuilds = 0
    /\ npools = 0
    /\ poolCfg = [p \in PoolIds |-> 0]
    /\ poolInit = [p \in PoolIds |-> FALSE]
    /\ hostConnsEstablished = [p \in PoolIds |-> [h \in Hosts |-> <<>>]]
    /\ hostConnsUnestablished = [p \in PoolIds |-> [h \in Hosts |-> <<>>]]
    /\ activeConns = [p \in PoolIds |-> <<>>]
    /\ nconns = 0
    /\ closed = {}
    /\ connPool = [c \in ConnIds |-> Nil]
    /\ connHost = [c \in ConnIds |-> NoHost]
    /\ nsessions = 0
    /\ sessClosed = {}
    /\ pc = [t \in Threads |-> IF t = Watcher THEN "off" ELSE "idle"]
    /\ newConfig = [t \in Threads |-> 0]
    /\ localPool = [t \in Callers |-> Nil]
    /\ hconn = [t \in Callers |-> Nil]
    /\ hhost = [t \in Callers |-> NoHost]
    /\ hmark = [t \in Callers |-> "none"]
    /\ logged = [t \in Callers |-> "none"]
    /\ qerr = [t \in Callers |-> "none"]
    /\ ret = [t \in Callers |-> "none"]
    /\ lastIn = [p \in PoolIds |-> None]
    /\ wlog = "none"
    /\ pairs = [t \in Callers |-> <<0, 0>>]
    /\ callSess = [t \in Callers |-> "none"]
    /\ wLastHash = 0
    /\ localSession = [t \in Callers |-> Nil]
    /\ ksConnections = [k \in Keyspaces |-> Nil]
    /\ ksConnectionsMtx = Free
    /\ nexecs = 0
    /\ execKs = <<>>
    /\ rpc = [t \in Callers |-> "idle"]
    /\ rks = [t \in Callers |-> 0]
    /\ rret = [t \in Callers |-> Nil]

\* A run that records neither the watcher's log lines nor the per-call
\* sessions, one that records the log lines, and one that records the
\* sessions.
Init == InitState /\ trace = "off"

LogInit == InitState /\ trace = "log"

SessInit == InitState /\ trace = "sess"

ReuseInit == InitState /\ trace = "in"

\* The log line (or session state) recorded in a run that traces `kind`.
Record(kind, old, new) == IF trace = kind THEN new ELSE old

Range(q) == {q[i] : i \in 1 .. Len(q)}

\* ------------------------------------------------- gocqlConnectionPool.init
\* The unestablished channel of a host is filled to its capacity with nil
\* tokens; the established channel starts empty.
initUnestablished(n) == [i \in 1 .. n |-> Nil]

poolInitQueues(p, newEst, newUnest) ==
    /\ hostConnsEstablished' = [hostConnsEstablished EXCEPT ![p] = newEst]
    /\ hostConnsUnestablished' = [hostConnsUnestablished EXCEPT ![p] = newUnest]

\* ------------------------------------------------ gocqlConnectionPool.Close
\* Every tracked connection is closed, the tracked list is replaced by an
\* empty one; the host channels are left alone.
CloseClosed(p) == closed \cup Range(activeConns[p])

\* Variant of CloseTracked that keeps the tracked list.
CloseTracked_keep(p) == activeConns[p]

CloseTracked(p) == <<>>

Close(p) ==
    /\ closed' = CloseClosed(p)
    /\ activeConns' = [activeConns EXCEPT ![p] = CloseTracked(p)]
    /\ lastIn' = Record("in", lastIn, [lastIn EXCEPT ![p] = None])

\* --------------------------------------------- gocqlConnectionPool.checkout
\* First select: non-blocking receive from the established channel of the
\* host the selector picked.
checkout_Select1(t) ==
    /\ pc[t] = "select1"
    /\ pairs' = [pairs EXCEPT ![t][1] = @ + 1]
    /\ LET p == localPool[t] IN
       \E h \in PoolHosts(p) :
          /\ hhost' = [hhost EXCEPT ![t] = h]
          /\ lastIn' = Record("in", lastIn, [lastIn EXCEPT ![p] =
                          [(IF @.conn # Nil /\ @.by = 0 /\ InCheckout(p) \ {t} = {}
                            THEN [@ EXCEPT !.by = t] ELSE None)
                           EXCEPT !.solo = IF Using(p) = {t} THEN t ELSE 0]])
          /\ IF hostConnsEstablished[p][h] # <<>>
             THEN /\ hconn' = [hconn EXCEPT ![t] = Head(hostConnsEstablished[p][h])]
                  /\ hostConnsEstablished' = [hostConnsEstablished EXCEPT ![p][h] = Tail(@)]
                  /\ pc' = [pc EXCEPT ![t] = "connect"]
             ELSE /\ pc' = [pc EXCEPT ![t] = "select2"]
                  /\ UNCHANGED <<hconn, hostConnsEstablished>>
    /\ UNCHANGED <<envVars, execVars, npools, poolCfg, poolInit, hostConnsUnestablished, activeConns,
                   connVars, sessVars, newConfig, localPool, hmark, logged, qerr, ret>>
    /\ UNCHANGED <<wlog, callSess, regVars, localVars, trace>>

\* Variant of timerFires for a select without the timer case.
timerFires_never(est, unest) == FALSE

\* The 5s timer can only win the second select while neither channel has an
\* entry to deliver.
timerFires(est, unest) == est = <<>> /\ unest = <<>>

\* Second select: established channel, unestablished channel, or the timer.
checkout_Select2(t) ==
    /\ pc[t] = "select2"
    /\ LET p == localPool[t]
           h == hhost[t]
       IN \/ /\ hostConnsEstablished[p][h] # <<>>
             /\ hconn' = [hconn EXCEPT ![t] = Head(hostConnsEstablished[p][h])]
             /\ hostConnsEstablished' = [hostConnsEstablished EXCEPT ![p][h] = Tail(@)]
             /\ pc' = [pc EXCEPT ![t] = "connect"]
             /\ UNCHANGED <<hostConnsUnestablished, logged>>
          \/ /\ hostConnsUnestablished[p][h] # <<>>
             /\ hconn' = [hconn EXCEPT ![t] = Head(hostConnsUnestablished[p][h])]
             /\ hostConnsUnestablished' = [hostConnsUnestablished EXCEPT ![p][h] = Tail(@)]
             /\ pc' = [pc EXCEPT ![t] = "connect"]
             /\ UNCHANGED <<hostConnsEstablished, logged>>
          \/ /\ timerFires(hostConnsEstablished[p][h], hostConnsUnestablished[p][h])
             /\ hconn' = [hconn EXCEPT ![t] = Nil]
             /\ logged' = [logged EXCEPT ![t] = "timeout"]
             /\ pc' = [pc EXCEPT ![t] = "use"]
             /\ UNCHANGED <<hostConnsEstablished, hostConnsUnestablished>>
    /\ UNCHANGED <<envVars, execVars, npools, poolCfg, poolInit, activeConns, connVars, sessVars,
                   newConfig, localPool, hhost, hmark, qerr, ret, lastIn>>
    /\ UNCHANGED <<wlog, pairs, callSess, regVars, localVars, trace>>

\* Variant of mustDial with the Closed() test inverted.
mustDial_inverted(conn) == conn = Nil \/ conn \notin closed

\* Variant of mustDial that does not look at conn.Closed().
mustDial_nilOnly(conn) == conn = Nil

\* `conn == nil || conn.Closed()`: the dequeued entry needs a dial.
mustDial(conn) == conn = Nil \/ conn \in closed

\* Variant of mustPutBack that gives the slot back after every dial.
mustPutBack_always(conn) == TRUE

\* Variant of mustPutBack that never gives the slot back.
mustPutBack_never(conn) == FALSE

\* `if conn == nil` after connect(): the slot has to be given back.
mustPutBack(conn) == conn = Nil

\* The test of the dequeued entry and, when it needs one, the dial of
\* gocqlConnectionPool.connect (gocql.Connect).  A connection that has been
\* dialed is not tracked by the pool until connect_Track.
checkout_Connect(t) ==
    /\ pc[t] = "connect"
    /\ LET p == localPool[t]
           h == hhost[t]
       IN IF mustDial(hconn[t])
          THEN \/ /\ nconns < MaxConns
                  /\ nconns' = nconns + 1
                  /\ connPool' = [connPool EXCEPT ![nconns + 1] = p]
                  /\ connHost' = [connHost EXCEPT ![nconns + 1] = h]
                  /\ hconn' = [hconn EXCEPT ![t] = nconns + 1]
                  /\ pc' = [pc EXCEPT ![t] = "track"]
                  /\ UNCHANGED logged
               \/ /\ hconn' = [hconn EXCEPT ![t] = Nil]
                  /\ pc' = [pc EXCEPT ![t] = IF mustPutBack(Nil) THEN "putback" ELSE "use"]
                  /\ logged' = [logged EXCEPT ![t] = IF mustPutBack(Nil) THEN @ ELSE "failed"]
                  /\ UNCHANGED <<nconns, connPool, connHost>>
          ELSE /\ pc' = [pc EXCEPT ![t] = "use"]
               /\ logged' = [logged EXCEPT ![t] = "reused"]
               /\ UNCHANGED <<nconns, connPool, connHost, hconn>>
    /\ UNCHANGED <<envVars, execVars, poolVars, closed, sessVars, newConfig, localPool, hhost, hmark,
                   qerr, ret, lastIn>>
    /\ UNCHANGED <<wlog, pairs, callSess, regVars, localVars, trace>>

\* The rest of connect after a successful dial: `p.activeConns =
\* append(p.activeConns, conn)` under activeConnsMtx, `return conn`, and the
\* `if conn == nil` of checkout on the returned connection.
connect_Track(t) ==
    /\ pc[t] = "track"
    /\ activeConns' = [activeConns EXCEPT ![localPool[t]] = Append(@, hconn[t])]
    /\ pc' = [pc EXCEPT ![t] = IF mustPutBack(hconn[t]) THEN "putback" ELSE "use"]
    /\ logged' = [logged EXCEPT ![t] = IF mustPutBack(hconn[t]) THEN @ ELSE "new"]
    /\ UNCHANGED <<envVars, execVars, npools, poolCfg, poolInit, hostConnsEstablished,
                   hostConnsUnestablished, connVars, sessVars, newConfig, localPool, hconn, hhost,
                   hmark, qerr, ret, lastIn>>
    /\ UNCHANGED <<wlog, pairs, callSess, regVars, localVars, trace>>

\* `hostChanUnestablished <- conn`: a channel send, which waits while the
\* channel is at capacity.
checkout_PutBack(t) ==
    /\ pc[t] = "putback"
    /\ LET p == localPool[t]
           h == hhost[t]
       IN /\ Len(hostConnsUnestablished[p][h]) < NumConns(p)
          /\ hostConnsUnestablished' = [hostConnsUnestablished EXCEPT ![p][h] = Append(@, hconn[t])]
    /\ logged' = [logged EXCEPT ![t] = IF hconn[t] # Nil THEN "new" ELSE "failed"]
    /\ pc' = [pc EXCEPT ![t] = "use"]
    /\ UNCHANGED <<envVars, execVars, npools, poolCfg, poolInit, hostConnsEstablished, activeConns,
                   connVars, sessVars, newConfig, localPool, hconn, hhost, hmark, qerr, ret, lastIn>>
    /\ UNCHANGED <<wlog, pairs, callSess, regVars, localVars, trace>>

\* ---------------------------------------------- gocqlConnectionPool.checkin
\* Variant of checkinEstablished without the nil check.
checkinEstablished_always(q, conn) == Append(q, conn)

\* What checkin sends onto the established channel of the handle's host.
checkinEstablished(q, conn) == IF conn # Nil THEN Append(q, conn) ELSE q

\* Variant of checkinPool that checks in to the executor's active pool.
checkinPool_active(t) == pool

\* `pool.checkin(conn, err)`: the pool of the check-in is the caller's local
\* `pool`, read once from e.pool under the read lock.
checkinPool(t) == localPool[t]

checkin(t) ==
    /\ pc[t] = "checkin"
    /\ LET p == checkinPool(t)
           h == hhost[t]
           q == hostConnsEstablished[p][h]
       IN /\ hmark' = [hmark EXCEPT ![t] = qerr[t]]
          /\ pairs' = [pairs EXCEPT ![t][2] = @ + 1]
          /\ Len(checkinEstablished(q, hconn[t])) <= NumConns(p)
          /\ hostConnsEstablished' = [hostConnsEstablished EXCEPT ![p][h] = checkinEstablished(q, hconn[t])]
          /\ lastIn' = Record("in", lastIn, [lastIn EXCEPT ![p] =
                          IF hconn[t] # Nil /\ qerr[t] = "ok" /\ InCheckout(p) = {}
                          THEN [conn |-> hconn[t], host |-> h, size |-> Size(p), alone |-> q = <<>>,
                                quiet |-> @.solo = t, by |-> 0, solo |-> 0]
                          ELSE None])
    /\ ret' = [ret EXCEPT ![t] = qerr[t]]
    /\ pc' = [pc EXCEPT ![t] = "idle"]
    /\ localPool' = [localPool EXCEPT ![t] = Nil]
    /\ hconn' = [hconn EXCEPT ![t] = Nil]
    /\ hhost' = [hhost EXCEPT ![t] = NoHost]
    /\ qerr' = [qerr EXCEPT ![t] = "none"]
    /\ UNCHANGED <<envVars, execVars, npools, poolCfg, poolInit, hostConnsUnestablished, activeConns,
                   connVars, sessVars, newConfig, logged>>
    /\ UNCHANGED <<wlog, callSess, regVars, localVars, trace>>

\* ------------------------------------------------ driver / config service
\* A connection is closed by the peer or by an I/O error.
PeerClose(c) ==
    /\ c \in 1 .. nconns
    /\ c \notin closed
    /\ closed' = closed \cup {c}
    /\ UNCHANGED <<envVars, execVars, poolVars, nconns, connPool, connHost, sessVars, pc, newConfig,
                   handleVars, ret, lastIn>>
    /\ UNCHANGED <<wlog, pairs, callSess, regVars, localVars, trace>>

\* The watcher goroutine has evaluated config.SubscribeChanges(): it is a
\* subscriber from its first scheduling on, not from `go e.watchConfig()`.
Subscribed == pc[Watcher] \notin {"off", "w_start"}

\* A write to the configuration service: either one that leaves the
\* effective keyspace configuration as it is, or one that moves it to the
\* next configuration.  Subscribers are notified of every write.
ConfigWrite ==
    /\ \/ curCfg' = curCfg
       \/ /\ curCfg < NumCfgs
          /\ curCfg' = curCfg + 1
    /\ notify' = Subscribed
    /\ UNCHANGED <<impl, execVars, poolVars, connVars, sessVars, pc, newConfig, handleVars, ret, lastIn>>
    /\ UNCHANGED <<wlog, pairs, callSess, regVars, localVars, trace>>

\* ------------------------------------------------------ gocqlExecutor.init
\* Query/Execute enter init(): read e.initialised under initMtx.RLock.
Query_Call(t) ==
    /\ pc[t] = "idle"
    /\ initMtx = Free
    /\ pc' = [pc EXCEPT ![t] = IF initialised THEN "read" ELSE "init_lock"]
    /\ ret' = [ret EXCEPT ![t] = "none"]
    /\ hmark' = [hmark EXCEPT ![t] = "none"]
    /\ pairs' = [pairs EXCEPT ![t] = <<0, 0>>]
    /\ callSess' = [callSess EXCEPT ![t] = "none"]
    /\ UNCHANGED <<envVars, execVars, poolVars, connVars, sessVars, newConfig, localPool, hconn, hhost,
                   logged, qerr, lastIn>>
    /\ UNCHANGED <<wlog, regVars, localVars, trace>>

\* Variant of initNeeded without the second check.
initNeeded_unguarded == TRUE

\* `if !e.initialised` under initMtx.Lock: the guard against the race.
initNeeded == ~initialised

\* initMtx.Lock(), the second check of e.initialised, and getKsConfig.
init_Lock(t) ==
    /\ pc[t] = "init_lock"
    /\ initMtx = Free
    /\ IF initNeeded
       THEN \/ /\ ret' = [ret EXCEPT ![t] = "initerr"]      \* getKsConfig failed
               /\ pc' = [pc EXCEPT ![t] = "idle"]
               /\ UNCHANGED <<initMtx, newConfig>>
            \/ /\ initMtx' = t
               /\ newConfig' = [newConfig EXCEPT ![t] = curCfg]
               /\ pc' = [pc EXCEPT ![t] = "sw_lock"]
               /\ UNCHANGED ret
       ELSE /\ pc' = [pc EXCEPT ![t] = "read"]
            /\ UNCHANGED <<initMtx, newConfig, ret>>
    /\ UNCHANGED <<envVars, initialised, rwLock, pool, lastHash, session, cfg, watchers, initBuilds,
                   poolVars, connVars, sessVars, handleVars, lastIn>>
    /\ UNCHANGED <<wlog, pairs, callSess, regVars, localVars, trace>>

\* `go e.watchConfig()`: the goroutine is started; it has not run yet.
init_Go(t) ==
    /\ pc[t] = "init_go"
    /\ watchers' = watchers + 1
    /\ pc' = [pc EXCEPT ![t] = "init_done", ![Watcher] = "w_start"]
    /\ UNCHANGED <<envVars, initialised, initMtx, rwLock, pool, lastHash, session, cfg, initBuilds,
                   poolVars, connVars, sessVars, newConfig, handleVars, ret, lastIn>>
    /\ UNCHANGED <<wlog, pairs, callSess, regVars, localVars, trace>>

\* `e.initialised = true; return nil` and the deferred initMtx.Unlock().
init_Return(t) ==
    /\ pc[t] = "init_done"
    /\ initialised' = TRUE
    /\ initMtx' = Free
    /\ pc' = [pc EXCEPT ![t] = "read"]
    /\ UNCHANGED <<envVars, rwLock, pool, lastHash, session, cfg, watchers, initBuilds, poolVars,
                   connVars, sessVars, newConfig, handleVars, ret, lastIn>>
    /\ UNCHANGED <<wlog, pairs, callSess, regVars, localVars, trace>>

\* ---------------------------------------------- gocqlExecutor.switchConfig
\* Variant of mustCloseOld that leaves the old pool open.
mustCloseOld_never(p) == FALSE

\* `if e.pool != nil { e.pool.Close() }`
mustCloseOld(p) == p # Nil

\* e.Lock(), then the old pool (old session) is closed if there is one.
switchConfig_Lock(th) ==
    /\ pc[th] = "sw_lock"
    /\ rwLock = Free
    /\ rwLock' = th
    /\ IF impl = "pool"
       THEN /\ IF mustCloseOld(pool) THEN Close(pool) ELSE UNCHANGED <<closed, activeConns, lastIn>>
            /\ pc' = [pc EXCEPT ![th] = "sw_new"]
            /\ UNCHANGED <<cfg, sessClosed>>
       ELSE /\ sessClosed' = IF session # Nil THEN sessClosed \cup {session} ELSE sessClosed
            /\ cfg' = newConfig[th]
            /\ pc' = [pc EXCEPT ![th] = "sw_create"]
            /\ UNCHANGED <<closed, activeConns, lastIn>>
    /\ UNCHANGED <<envVars, initialised, initMtx, pool, lastHash, session, watchers, initBuilds,
                   npools, poolCfg, poolInit, hostConnsEstablished, hostConnsUnestablished,
                   nconns, connPool, connHost, nsessions, newConfig, handleVars, ret>>
    /\ UNCHANGED <<wlog, pairs, callSess, regVars, localVars, trace>>

\* `e.pool = &gocqlConnectionPool{Cfg: newConfig}`
switchConfig_New(th) ==
    /\ pc[th] = "sw_new"
    /\ npools' = npools + 1
    /\ pool' = npools + 1
    /\ poolCfg' = [poolCfg EXCEPT ![npools + 1] = newConfig[th]]
    /\ initBuilds' = IF th = Watcher THEN initBuilds ELSE initBuilds + 1
    /\ pc' = [pc EXCEPT ![th] = "sw_init"]
    /\ UNCHANGED <<envVars, initialised, initMtx, rwLock, lastHash, session, cfg, watchers,
                   poolInit, hostConnsEstablished, hostConnsUnestablished, activeConns,
                   connVars, sessVars, newConfig, handleVars, ret, lastIn>>
    /\ UNCHANGED <<wlog, pairs, callSess, regVars, localVars, trace>>

\* `e.pool.init()`
switchConfig_PoolInit(th) ==
    /\ pc[th] = "sw_init"
    /\ poolInit' = [poolInit EXCEPT ![pool] = TRUE]
    /\ activeConns' = [activeConns EXCEPT ![pool] = <<>>]
    /\ poolInitQueues(pool,
                      [h \in Hosts |-> <<>>],
                      [h \in Hosts |-> IF h \in PoolHosts(pool)
                                       THEN initUnestablished(NumConns(pool)) ELSE <<>>])
    /\ pc' = [pc EXCEPT ![th] = "sw_unlock"]
    /\ UNCHANGED <<envVars, execVars, npools, poolCfg, connVars, sessVars, newConfig, handleVars,
                   ret, lastIn>>
    /\ UNCHANGED <<wlog, pairs, callSess, regVars, localVars, trace>>

\* `e.lastHash = newConfig.hash()` and the deferred e.Unlock().
switchConfig_Unlock(th) ==
    /\ pc[th] = "sw_unlock"
    /\ lastHash' = hash(newConfig[th])
    /\ rwLock' = Free
    /\ pc' = [pc EXCEPT ![th] = IF th = Watcher THEN "w_wait" ELSE "init_go"]
    /\ wlog' = IF th = Watcher THEN Record("log", wlog, "switched") ELSE wlog
    /\ UNCHANGED <<envVars, initialised, initMtx, pool, session, cfg, watchers, initBuilds, poolVars,
                   connVars, sessVars, newConfig, handleVars, ret, lastIn>>
    /\ UNCHANGED <<pairs, callSess, regVars, localVars, trace>>

\* Session executor: `e.cfg.cc.CreateSession()`, which can fail; on success
\* the session and the hash are recorded.  Either way e.Unlock() follows.
switchConfig_CreateSession(th) ==
    /\ pc[th] = "sw_create"
    /\ rwLock' = Free
    /\ \/ /\ nsessions' = nsessions + 1
          /\ session' = nsessions + 1
          /\ lastHash' = hash(newConfig[th])
          /\ initBuilds' = IF th = Watcher THEN initBuilds ELSE initBuilds + 1
          /\ pc' = [pc EXCEPT ![th] = IF th = Watcher THEN "w_wait" ELSE "init_go"]
          /\ wlog' = IF th = Watcher THEN Record("log", wlog, "switched") ELSE wlog
          /\ UNCHANGED <<initMtx, ret>>
       \/ /\ IF th = Watcher
             THEN /\ pc' = [pc EXCEPT ![th] = "w_retry_send"]
                  /\ wlog' = Record("log", wlog, "swaperr")
                  /\ UNCHANGED <<initMtx, ret>>
             ELSE /\ pc' = [pc EXCEPT ![th] = "idle"]
                  /\ initMtx' = Free
                  /\ ret' = [ret EXCEPT ![th] = "initerr"]
                  /\ UNCHANGED wlog
          /\ UNCHANGED <<nsessions, session, lastHash, initBuilds>>
    /\ UNCHANGED <<envVars, initialised, pool, cfg, watchers, poolVars, connVars,
                   sessClosed, newConfig, handleVars, lastIn>>
    /\ UNCHANGED <<pairs, callSess, regVars, localVars, trace>>

\* ----------------------------------------------- gocqlExecutor.watchConfig
\* Variant of reloadDecision that switches on every successful load.
reloadDecision_noCompare(loaded, h, last) == IF ~loaded THEN "loaderr" ELSE "switch"

\* Variant of reloadDecision that goes on with the zero config after a
\* failed load.
reloadDecision_ignoreError(loaded, h, last) == IF h # last THEN "switch" ELSE "unchanged"

\* What one reload does with the loaded config: `if err != nil` logs the
\* load error; `else if cfg.hash() != lastHash` switches; otherwise it logs
\* that the config is unchanged.
reloadDecision(loaded, h, last) ==
    IF ~loaded THEN "loaderr" ELSE IF h # last THEN "switch" ELSE "unchanged"

\* The goroutines that run watchConfig: the one started by init.
WatcherThreads == {Watcher}

\* retryCh is unbuffered: a send on it completes only while a goroutine is
\* at the select of watchConfig, the only receive on the channel.
retryCh_Ready ==
    \E s \in WatcherThreads : \E r \in WatcherThreads :
        pc[s] = "w_retry_send" /\ pc[r] = "w_wait"

\* Variant of RLockFree for a read that does not take the lock.
RLockFree_unlocked == TRUE

\* e.RLock(): a reader gets in only while no writer holds the executor's
\* lock.
RLockFree == rwLock = Free

\* The first step of the watcher goroutine: `config.SubscribeChanges()`
\* (and, in the session executor, `retryCh := make(chan struct{})`).  Writes
\* made before this step are not delivered to the watcher.
watchConfig_Subscribe ==
    /\ pc[Watcher] = "w_start"
    /\ pc' = [pc EXCEPT ![Watcher] = "w_wait"]
    /\ UNCHANGED <<envVars, execVars, poolVars, connVars, sessVars, newConfig, handleVars, ret,
                   lastIn>>
    /\ UNCHANGED <<wlog, pairs, callSess, regVars, localVars, trace>>

\* The receive of the watcher loop: `range config.SubscribeChanges()` in the
\* pool executor, the select over configCh and retryCh in the session
\* executor.
watchConfig_Recv ==
    /\ pc[Watcher] = "w_wait"
    /\ \/ /\ notify
          /\ notify' = FALSE
       \/ /\ impl = "session"
          /\ retryCh_Ready
          /\ UNCHANGED notify
    /\ pc' = [pc EXCEPT ![Watcher] = "w_rlock"]
    /\ UNCHANGED <<impl, curCfg, execVars, poolVars, connVars, sessVars, newConfig, handleVars, ret,
                   lastIn>>
    /\ UNCHANGED <<wlog, pairs, callSess, regVars, localVars, trace>>

\* `e.RLock(); ks := e.ks; lastHash := e.lastHash; e.RUnlock()`.
watchConfig_ReadHash ==
    /\ pc[Watcher] = "w_rlock"
    /\ RLockFree
    /\ wLastHash' = lastHash
    /\ pc' = [pc EXCEPT ![Watcher] = "w_load"]
    /\ UNCHANGED <<envVars, execVars, poolVars, connVars, sessVars, newConfig, handleVars, ret,
                   lastIn>>
    /\ UNCHANGED <<wlog, pairs, callSess, regVars, localSession, trace>>

\* getKsConfig loads the config the service holds now, after the lock has
\* been released; its hash is compared with the local lastHash and the
\* config is switched when they differ.  The local goes out of scope at
\* the end of the iteration.
watchConfig_Load ==
    /\ pc[Watcher] = "w_load"
    /\ \E loaded \in BOOLEAN :
          LET c == IF loaded THEN curCfg ELSE 0
              d == reloadDecision(loaded, hash(c), wLastHash)
          IN /\ wlog' = Record("log", wlog, IF loaded THEN d ELSE "loaderr")
             /\ IF d = "switch"
                THEN /\ newConfig' = [newConfig EXCEPT ![Watcher] = c]
                     /\ pc' = [pc EXCEPT ![Watcher] = "sw_lock"]
                ELSE /\ pc' = [pc EXCEPT ![Watcher] = "w_wait"]
                     /\ UNCHANGED newConfig
    /\ wLastHash' = 0
    /\ UNCHANGED <<envVars, execVars, poolVars, connVars, sessVars, handleVars, ret, lastIn>>
    /\ UNCHANGED <<pairs, callSess, regVars, localSession, trace>>

\* ------------------------------------------- gocqlExecutor.Query / Execute
\* Pool executor: `pool, ks := e.pool, e.ks` under e.RLock().
Query_ReadPool(t) ==
    /\ pc[t] = "read"
    /\ impl = "pool"
    /\ RLockFree
    /\ localPool' = [localPool EXCEPT ![t] = pool]
    /\ pc' = [pc EXCEPT ![t] = "select1"]
    /\ UNCHANGED <<envVars, execVars, poolVars, connVars, sessVars, newConfig, hconn, hhost, hmark,
                   logged, qerr, ret, lastIn>>
    /\ UNCHANGED <<wlog, pairs, callSess, regVars, localVars, trace>>

\* Session executor: `session, ks := e.session, e.ks` under e.RLock(), and
\* `if session == nil` returns the error "No open session".
Query_ReadSession(t) ==
    /\ pc[t] = "read"
    /\ impl = "session"
    /\ RLockFree
    /\ IF session = Nil
       THEN /\ ret' = [ret EXCEPT ![t] = "err"]
            /\ pc' = [pc EXCEPT ![t] = "idle"]
            /\ UNCHANGED localSession
       ELSE /\ localSession' = [localSession EXCEPT ![t] = session]
            /\ pc' = [pc EXCEPT ![t] = "s_run"]
            /\ UNCHANGED ret
    /\ UNCHANGED <<envVars, execVars, poolVars, connVars, sessVars, newConfig, handleVars, lastIn>>
    /\ UNCHANGED <<wlog, pairs, callSess, regVars, wLastHash, trace>>

\* The statement runs on the session the caller read, after the lock has
\* been released; on a session that has been closed it fails.
Query_RunSession(t) ==
    /\ pc[t] = "s_run"
    /\ \E r \in {"ok", "err"} :
          /\ localSession[t] \in sessClosed => r = "err"
          /\ ret' = [ret EXCEPT ![t] = r]
    /\ localSession' = [localSession EXCEPT ![t] = Nil]
    /\ pc' = [pc EXCEPT ![t] = "idle"]
    /\ UNCHANGED <<envVars, execVars, poolVars, connVars, sessVars, newConfig, handleVars, lastIn>>
    /\ UNCHANGED <<wlog, pairs, callSess, regVars, wLastHash, trace>>

\* Variant of afterSessionError that returns the error straight away.
afterSessionError_return == "idle"

\* `if err != nil { pool.checkin(conn, err); return ... }` after
\* gocql.NewSession: the handle is checked in on this path too.
afterSessionError == "checkin"

\* The per-call session is built around the handle (gocql.NewSession with a
\* singlePool) and the statement runs on it; without a usable connection
\* the statement fails.  Nothing here closes the session.
Query_Run(t) ==
    /\ pc[t] = "use"
    /\ \/ /\ qerr' = [qerr EXCEPT ![t] = "err"]           \* NewSession failed
          /\ pc' = [pc EXCEPT ![t] = afterSessionError]
          /\ UNCHANGED callSess
       \/ \E r \in {"ok", "err"} :
             /\ (hconn[t] = Nil \/ hconn[t] \in closed) => r = "err"
             /\ qerr' = [qerr EXCEPT ![t] = r]
             /\ callSess' = [callSess EXCEPT ![t] = Record("sess", @, "open")]
             /\ pc' = [pc EXCEPT ![t] = "checkin"]
    /\ logged' = [logged EXCEPT ![t] = "none"]
    /\ UNCHANGED <<envVars, execVars, poolVars, connVars, sessVars, newConfig, localPool, hconn,
                   hhost, hmark, ret, lastIn>>
    /\ UNCHANGED <<wlog, pairs, regVars, localVars, trace>>

\* ------------------------------------------ gocqlExecutor.ExecuteAtomically
\* Variant of ExecuteAtomically that initialises the executor first, as
\* Query and Execute do.
ExecuteAtomically_init(t) ==
    /\ pc[t] = "idle"
    /\ initMtx = Free
    /\ pc' = [pc EXCEPT ![t] = IF initialised THEN "idle" ELSE "init_lock"]
    /\ ret' = [ret EXCEPT ![t] = "notimpl"]
    /\ UNCHANGED <<envVars, execVars, poolVars, connVars, sessVars, newConfig, handleVars, lastIn>>
    /\ UNCHANGED <<wlog, pairs, callSess, regVars, localVars, trace>>

\* `return errors.New("Execute atomically is not implemented yet")`.
ExecuteAtomically(t) ==
    /\ pc[t] = "idle"
    /\ ret' = [ret EXCEPT ![t] = "notimpl"]
    /\ UNCHANGED <<envVars, execVars, poolVars, connVars, sessVars, pc, newConfig, handleVars, lastIn>>
    /\ UNCHANGED <<wlog, pairs, callSess, regVars, localVars, trace>>

Next ==
    \/ \E t \in Callers : Query_Call(t)
    \/ \E t \in Callers : init_Lock(t)
    \/ \E t \in Callers : init_Go(t)
    \/ \E t \in Callers : init_Return(t)
    \/ \E th \in Threads : switchConfig_Lock(th)
    \/ \E th \in Threads : switchConfig_New(th)
    \/ \E th \in Threads : switchConfig_PoolInit(th)
    \/ \E th \in Threads : switchConfig_Unlock(th)
    \/ \E th \in Threads : switchConfig_CreateSession(th)
    \/ watchConfig_Subscribe
    \/ watchConfig_Recv
    \/ watchConfig_ReadHash
    \/ watchConfig_Load
    \/ \E t \in Callers : Query_ReadPool(t)
    \/ \E t \in Callers : Query_ReadSession(t)
    \/ \E t \in Callers : Query_RunSession(t)
    \/ \E t \in Callers : checkout_Select1(t)
    \/ \E t \in Callers : checkout_Select2(t)
    \/ \E t \in Callers : checkout_Connect(t)
    \/ \E t \in Callers : connect_Track(t)
    \/ \E t \in Callers : checkout_PutBack(t)
    \/ \E t \in Callers : Query_Run(t)
    \/ \E t \in Callers : checkin(t)
    \/ \E c \in ConnIds : PeerClose(c)
    \/ ConfigWrite

Spec == Init /\ [][Next]_vars

\* The same program in a run that records the watcher's log lines.
LogSpec == LogInit /\ [][Next]_vars

\* The same program in a run that records the last check-in of every pool.
ReuseSpec == ReuseInit /\ [][Next]_vars

\* The whole executor API, ExecuteAtomically included, in a run that
\* records the per-call sessions.
ApiNext ==
    \/ Next
    \/ \E t \in Callers : ExecuteAtomically(t)

ApiSpec == SessInit /\ [][ApiNext]_vars

\* A caller blocked in the second select is resumed when one of its cases
\* is ready: the Go runtime wakes a goroutine whose channel operation or
\* timer is ready.  Nothing is assumed about the other callers.
FairSpec == Spec /\ \A t \in Callers : WF_vars(checkout_Select2(t))

\* ------------------------------------------------------- gocqlConnector
\* The fast path: `conn, ok := ksConnections[ks]` under
\* ksConnectionsMtx.RLock(); a registered connection is returned as it is.
gocqlConnector_Read(t, ks) ==
    /\ rpc[t] = "idle"
    /\ ksConnectionsMtx = Free
    /\ rks' = [rks EXCEPT ![t] = ks]
    /\ IF ksConnections[ks] # Nil
       THEN /\ rret' = [rret EXCEPT ![t] = ksConnections[ks]]
            /\ UNCHANGED rpc
       ELSE /\ rret' = [rret EXCEPT ![t] = Nil]
            /\ rpc' = [rpc EXCEPT ![t] = "lock"]
    /\ UNCHANGED <<ksConnections, ksConnectionsMtx, nexecs, execKs, executorVars>>

\* ksConnectionsMtx.Lock().
gocqlConnector_Lock(t) ==
    /\ rpc[t] = "lock"
    /\ ksConnectionsMtx = Free
    /\ ksConnectionsMtx' = t
    /\ rpc' = [rpc EXCEPT ![t] = "locked"]
    /\ UNCHANGED <<ksConnections, nexecs, execKs, rks, rret, executorVars>>

\* Variant of mustConstruct without the second look at the map.
mustConstruct_unguarded(conn) == TRUE

\* `if conn, ok = ksConnections[ks]; !ok`: the guard against the race.
mustConstruct(conn) == conn = Nil

\* Under the write lock: look again, construct and store the executor's
\* connection if the keyspace is still missing, unlock and return it.
gocqlConnector_Store(t) ==
    /\ rpc[t] = "locked"
    /\ LET ks == rks[t] IN
       IF mustConstruct(ksConnections[ks])
       THEN /\ nexecs' = nexecs + 1
            /\ execKs' = Append(execKs, ks)
            /\ ksConnections' = [ksConnections EXCEPT ![ks] = nexecs + 1]
            /\ rret' = [rret EXCEPT ![t] = nexecs + 1]
       ELSE /\ rret' = [rret EXCEPT ![t] = ksConnections[ks]]
            /\ UNCHANGED <<nexecs, execKs, ksConnections>>
    /\ ksConnectionsMtx' = Free
    /\ rpc' = [rpc EXCEPT ![t] = "idle"]
    /\ UNCHANGED <<rks, executorVars>>

RegistryNext ==
    \/ \E t \in Callers : \E ks \in Keyspaces : gocqlConnector_Read(t, ks)
    \/ \E t \in Callers : gocqlConnector_Lock(t)
    \/ \E t \in Callers : gocqlConnector_Store(t)

\* Concurrent gocqlConnector calls on the package's registry.
RegistrySpec == Init /\ [][RegistryNext]_vars

\* The steps of the watcher goroutine.
WatcherStep ==
    \/ watchConfig_Subscribe
    \/ watchConfig_Recv
    \/ watchConfig_ReadHash
    \/ watchConfig_Load
    \/ switchConfig_Lock(Watcher)
    \/ switchConfig_New(Watcher)
    \/ switchConfig_PoolInit(Watcher)
    \/ switchConfig_Unlock(Watcher)
    \/ switchConfig_CreateSession(Watcher)

\* The watcher goroutine is scheduled whenever it stays runnable: its
\* receive has a value to take, or the lock it waits for is free.
WatcherFairSpec == Spec /\ WF_vars(WatcherStep)

\* The steps of caller t between reading the active pool and returning.
CallStep(t) ==
    \/ checkout_Select1(t)
    \/ checkout_Select2(t)
    \/ checkout_Connect(t)
    \/ connect_Track(t)
    \/ checkout_PutBack(t)
    \/ Query_Run(t)
    \/ checkin(t)

TypeOK ==
    /\ impl \in Impls
    /\ pool \in 0 .. NumCfgs
    /\ npools \in 0 .. NumCfgs
    /\ nconns \in 0 .. MaxConns
    /\ closed \subseteq 1 .. nconns

\* ================================================================ claims
\* Callers that hold an entry taken from a queue of host h of pool p and are
\* still inside checkout (dialing, or about to put the token back).
Held(p, h) == {t \in Callers : localPool[t] = p /\ hhost[t] = h /\ pc[t] \in {"connect", "track", "putback"}}

LivePools == {p \in 1 .. npools : poolInit[p]}

\* C1: for every host of every pool, the entries of the established queue
\* plus those of the unestablished queue plus the connections checked out
\* for that host never exceed cc.NumConns.
SlotConservation ==
    \A p \in LivePools : \A h \in PoolHosts(p) :
        Len(hostConnsEstablished[p][h]) + Len(hostConnsUnestablished[p][h])
            + Cardinality(CheckedOut(p, h)) <= NumConns(p)

\* C1 witness: a host whose slots are all accounted for, one of them in the
\* established queue and another one checked out.
SlotConservationWitness ==
    \E p \in LivePools : \E h \in PoolHosts(p) :
        /\ hostConnsEstablished[p][h] # <<>>
        /\ CheckedOut(p, h) # {}
        /\ Len(hostConnsEstablished[p][h]) + Len(hostConnsUnestablished[p][h])
             + Cardinality(CheckedOut(p, h)) = NumConns(p)

\* Every slot of a host is in exactly one place: a queue, a checkout in
\* progress, or a handle with a connection.
SlotExact ==
    \A p \in LivePools : \A h \in PoolHosts(p) :
        Len(hostConnsEstablished[p][h]) + Len(hostConnsUnestablished[p][h])
            + Cardinality(CheckedOut(p, h)) + Cardinality(Held(p, h)) = NumConns(p)

\* The send that puts the token back finds free capacity, and what is put
\* back is an empty token.
PutBackNeverBlocks ==
    \A t \in Callers : pc[t] = "putback" =>
        /\ hconn[t] = Nil
        /\ Len(hostConnsUnestablished[localPool[t]][hhost[t]]) < NumConns(localPool[t])

\* A failed dial leads to the put-back, and the put-back appends exactly one
\* empty token to the unestablished queue of the handle's host, leaves the
\* established queues alone and returns a handle without connection.
DialFailureStep ==
    \A t \in Callers :
        /\ (pc[t] = "connect" /\ pc'[t] # "connect" /\ hconn'[t] = Nil) => pc'[t] = "putback"
        /\ (pc[t] = "putback" /\ pc'[t] # "putback") =>
              /\ pc'[t] = "use"
              /\ hconn'[t] = Nil
              /\ hostConnsEstablished' = hostConnsEstablished
              /\ hostConnsUnestablished' =
                    [hostConnsUnestablished EXCEPT ![localPool[t]][hhost[t]] = Append(@, Nil)]

\* C4: when checkout took an entry from a queue of a host and the dial
\* fails, exactly one empty token goes back onto that host's unestablished
\* queue without blocking and the handle has no connection, so no slot of
\* the host is lost.
DialFailureRestoresSlot ==
    /\ [](SlotExact /\ PutBackNeverBlocks)
    /\ [][DialFailureStep]_vars

\* C4 witness: a checkout has returned without connection after a failed
\* dial, and the token is back on the host's unestablished queue.
DialFailureWitness ==
    \E t \in Callers :
        /\ pc[t] = "use"
        /\ logged[t] = "failed"
        /\ hconn[t] = Nil
        /\ hostConnsUnestablished[localPool[t]][hhost[t]] # <<>>
        /\ Len(hostConnsUnestablished[localPool[t]][hhost[t]]) = NumConns(localPool[t])

\* C3: a caller waiting in the second select always has a case it can take
\* and so leaves the select; when both queues of the picked host are empty
\* the case is the timer, and then the checkout returns a handle without
\* connection that carries the pick, and no queue has changed.
SelectNeverStuck ==
    \A t \in Callers : pc[t] = "select2" => ENABLED checkout_Select2(t)

TimeoutStep ==
    \A t \in Callers :
        (/\ pc[t] = "select2"
         /\ pc'[t] # "select2"
         /\ hostConnsEstablished[localPool[t]][hhost[t]] = <<>>
         /\ hostConnsUnestablished[localPool[t]][hhost[t]] = <<>>)
        => /\ pc'[t] = "use"
           /\ hconn'[t] = Nil
           /\ hhost'[t] = hhost[t]
           /\ localPool'[t] = localPool[t]
           /\ hostConnsEstablished' = hostConnsEstablished
           /\ hostConnsUnestablished' = hostConnsUnestablished

GracefulExhaustion ==
    /\ []SelectNeverStuck
    /\ [][TimeoutStep]_vars
    /\ \A t \in Callers : (pc[t] = "select2") ~> (pc[t] # "select2")

\* C3 witness: a checkout has timed out while every slot of the picked host
\* was checked out.
GracefulExhaustionWitness ==
    \E t \in Callers :
        /\ pc[t] = "use"
        /\ logged[t] = "timeout"
        /\ hconn[t] = Nil
        /\ hhost[t] \in PoolHosts(localPool[t])
        /\ Cardinality(CheckedOut(localPool[t], hhost[t])) = NumConns(localPool[t])

\* C5: a caller that is about to check in a connection always finds free
\* capacity in the established queue of the handle's host.
CheckinNeverBlocks ==
    \A t \in Callers : (pc[t] = "checkin" /\ hconn[t] # Nil) =>
        Len(hostConnsEstablished[localPool[t]][hhost[t]]) < NumConns(localPool[t])

\* C5 witness: a check-in of a connection to a pool that a config swap has
\* closed and replaced.
CheckinNeverBlocksWitness ==
    \E t \in Callers :
        /\ pc[t] = "checkin"
        /\ hconn[t] # Nil
        /\ localPool[t] # pool
        /\ rwLock = Free

\* C6: a check-in reports the statement's error for the handle's pick,
\* appends the connection to the established queue of the handle's host
\* exactly when the handle has one, and changes no other queue.
CheckinEffectStep ==
    \A t \in Callers : (pc[t] = "checkin" /\ pc'[t] # "checkin") =>
        LET p == localPool[t]
            h == hhost[t]
        IN /\ hmark'[t] = qerr[t]
           /\ hostConnsUnestablished' = hostConnsUnestablished
           /\ \A p2 \in PoolIds : \A h2 \in Hosts :
                 hostConnsEstablished'[p2][h2] =
                    IF p2 = p /\ h2 = h /\ hconn[t] # Nil
                    THEN Append(hostConnsEstablished[p2][h2], hconn[t])
                    ELSE hostConnsEstablished[p2][h2]

CheckinEffect == [][CheckinEffectStep]_vars

\* C6 witness: a handle without connection was checked in and its error
\* reported, while the queues still hold only empty tokens.
CheckinEffectWitness ==
    \E t \in Callers :
        /\ pc[t] = "idle"
        /\ hmark[t] = "err"
        /\ nconns = 0

\* C2 (as stated): single host; a checkout returned a connection, it was
\* checked in with a nil error, and nothing else used the pool from that
\* checkout on; the next checkout returns that connection (if it is still
\* open) for the same host and dials nothing.
ReuseStep(asStated) ==
    \A t \in Callers :
        LET p == localPool[t] IN
        (/\ pc[t] \in {"select1", "select2", "connect", "track", "putback"}
         /\ pc'[t] = "use"
         /\ Cardinality(PoolHosts(p)) = 1
         /\ lastIn[p].conn # Nil
         /\ lastIn[p].by = t
         /\ IF asStated THEN lastIn[p].quiet ELSE lastIn[p].alone
         /\ lastIn[p].conn \notin closed)
        => /\ hconn'[t] = lastIn[p].conn
           /\ hhost'[t] = lastIn[p].host
           /\ Len(activeConns'[p]) = lastIn[p].size

ReuseAnyQueue == [][ReuseStep(TRUE)]_vars

\* C2 (amended): single host; a connection was checked in with a nil error
\* into an empty established queue and nothing else used the pool since;
\* the next checkout returns that connection (if it is still open) for the
\* same host and dials nothing.
ReuseWhenAlone == [][ReuseStep(FALSE)]_vars

\* C2 witness: a checkout has returned the connection that was checked in
\* last into an empty established queue, while an unestablished token was
\* available for the host.
ReuseWitness ==
    \E t \in Callers :
        LET p == localPool[t] IN
        /\ pc[t] = "use"
        /\ p # Nil
        /\ Cardinality(PoolHosts(p)) = 1
        /\ lastIn[p].conn # Nil
        /\ lastIn[p].by = t
        /\ lastIn[p].alone
        /\ hconn[t] = lastIn[p].conn
        /\ logged[t] = "reused"
        /\ hostConnsUnestablished[p][hhost[t]] # <<>>

\* Connections dialed by pool p that are not closed.
OpenConns(p) == {c \in 1 .. nconns : connPool[c] = p /\ c \notin closed}

\* C7 (as stated): Size() is the number of connections the pool dialed that
\* are not closed.
SizeCountsOpenConns ==
    \A p \in LivePools : Size(p) = Cardinality(OpenConns(p))

\* The same count taken only while no connect() of the pool is between its
\* dial and its append to activeConns.
SizeCountsOpenConnsSettled ==
    \A p \in LivePools :
        (\A t \in Callers : ~(localPool[t] = p /\ pc[t] = "track"))
            => Size(p) = Cardinality(OpenConns(p))

\* C8: Close() closes every tracked connection, leaves the tracked list
\* empty, and leaves the queues of every host and the host list as they
\* were.
CloseStep ==
    \A th \in Threads :
        (pc[th] = "sw_lock" /\ pc'[th] = "sw_new" /\ pool # Nil) =>
            /\ Range(activeConns[pool]) \subseteq closed'
            /\ Len(activeConns'[pool]) = 0
            /\ hostConnsEstablished' = hostConnsEstablished
            /\ hostConnsUnestablished' = hostConnsUnestablished
            /\ poolCfg' = poolCfg

CloseEffect == [][CloseStep]_vars

\* C8 witness: Close() has just run on a pool that tracked a connection
\* sitting in an established queue; the connection is closed and still in
\* the queue.
CloseEffectWitness ==
    /\ pc[Watcher] = "sw_new"
    /\ pool # Nil
    /\ activeConns[pool] = <<>>
    /\ \E h \in PoolHosts(pool) :
          /\ hostConnsEstablished[pool][h] # <<>>
          /\ Head(hostConnsEstablished[pool][h]) \in closed

\* C9 (as stated): once a pool has been replaced and every caller that read
\* it has returned, no connection it dialed is open.
SupersededPoolDestroyed ==
    \A p \in LivePools :
        (p # pool /\ rwLock = Free /\ \A t \in Callers : localPool[t] # p) => OpenConns(p) = {}

\* C10: the pool (session) of init() is built at most once and at most one
\* watcher is started; a failed init returns the error, leaves the executor
\* uninitialised without watcher and with initMtx released, and a call on an
\* uninitialised executor goes on to attempt the initialisation.
InitOnce ==
    /\ initBuilds <= 1
    /\ watchers <= 1
    /\ initialised => (watchers = 1 /\ initBuilds = 1)

InitFailureStep ==
    \A t \in Callers :
        /\ (ret'[t] = "initerr" /\ ret[t] # "initerr") =>
              /\ ~initialised'
              /\ watchers' = 0
              /\ pc'[Watcher] = "off"
              /\ pc'[t] = "idle"
              /\ initMtx' = Free
        /\ (pc[t] = "idle" /\ pc'[t] # "idle" /\ ~initialised) => pc'[t] = "init_lock"
        /\ (pc[t] = "init_lock" /\ pc'[t] # "init_lock" /\ ~initialised) =>
              \/ ret'[t] = "initerr"
              \/ pc'[t] = "sw_lock" /\ initMtx' = t

SingleInitialisation == []InitOnce /\ [][InitFailureStep]_vars

\* C10 witness: one caller's call failed in init, and the executor was then
\* initialised by another call, with one watcher.
SingleInitialisationWitness ==
    \E t \in Callers :
        /\ ret[t] = "initerr"
        /\ initialised
        /\ watchers = 1

\* The watcher receives one change notification in this step.
NotificationStep == pc[Watcher] = "w_wait" /\ notify /\ ~notify'

\* The watcher reads the recorded hash in this step.
ReadHashStep == pc[Watcher] = "w_rlock" /\ pc'[Watcher] # "w_rlock"

\* The watcher loads the config and compares the hashes in this step.
LoadStep == pc[Watcher] = "w_load" /\ pc'[Watcher] # "w_load"

\* While the watcher is about to load, its local copy of the hash is the
\* recorded one: nothing else writes lastHash once the watcher runs.
LocalHashCurrent == pc[Watcher] = "w_load" => wLastHash = lastHash

\* Receiving the notification and reading the hash change nothing of the
\* executor, the pools or the connections.
ReloadPrefixStep ==
    (NotificationStep \/ ReadHashStep) =>
        /\ pool' = pool
        /\ session' = session
        /\ lastHash' = lastHash
        /\ initialised' = initialised
        /\ UNCHANGED <<poolVars, connVars, sessVars>>
        /\ pc'[Watcher] \in {"w_rlock", "w_load"}

NoOpReloadStep ==
    /\ ReloadPrefixStep
    /\ (LoadStep /\ wlog' # "loaderr" /\ hash(curCfg) = lastHash) =>
           /\ pool' = pool
           /\ session' = session
           /\ lastHash' = lastHash
           /\ UNCHANGED <<poolVars, connVars, sessVars>>
           /\ pc'[Watcher] = "w_wait"

\* C11: when the watcher handles a change notification and the config it
\* loads has the hash the executor has recorded, the active pool (or
\* session), the recorded hash and every connection and queue are left as
\* they are, no pool is closed or created, and the watcher waits again.
NoOpReload == [][NoOpReloadStep]_vars

\* C11 witness: the watcher has just found the config unchanged while the
\* active pool holds a live connection.
NoOpReloadWitness ==
    /\ wlog = "unchanged"
    /\ pc[Watcher] = "w_wait"
    /\ pool # Nil
    /\ lastHash = hash(curCfg)
    /\ activeConns[pool] # <<>>

\* C12: a Query/Execute that reads the active pool, also while a swap is in
\* progress, holds a pool whose init has finished (the complete old one or
\* the complete new one), never a nil pool once initialisation has
\* succeeded; and whenever the executor's lock is free the published pool
\* is completely constructed.
CopyOnWriteSwap ==
    /\ \A t \in Callers :
          pc[t] \in {"select1", "select2", "connect", "track", "putback", "use", "checkin"} =>
              /\ localPool[t] # Nil
              /\ localPool[t] \in 1 .. npools
              /\ poolInit[localPool[t]]
    /\ (impl = "pool" /\ initialised) => pool # Nil
    /\ (rwLock = Free /\ pool # Nil) => poolInit[pool]

\* C12 witness: a swap is half-way (e.pool already points to the new pool,
\* whose init has not run), one caller works on the complete old pool, and
\* another caller is about to read the active pool.
CopyOnWriteSwapWitness ==
    /\ pc[Watcher] = "sw_init"
    /\ pool # Nil
    /\ ~poolInit[pool]
    /\ \E t \in Callers : \E u \in Callers :
          /\ localPool[t] # Nil
          /\ localPool[t] # pool
          /\ poolInit[localPool[t]]
          /\ pc[u] = "read"

\* C13: after a watcher-triggered swap has failed to construct the
\* replacement, the previously active pool or session is still the
\* executor's active one and is still open, so that calls are served by it.
FailedSwapKeepsOld ==
    pc[Watcher] = "w_retry_send" =>
        /\ impl = "session" => (session # Nil /\ session \notin sessClosed)
        /\ impl = "pool" => (pool # Nil /\ poolInit[pool])

\* C14: whenever a watcher-triggered swap has failed, the watcher gets past
\* its retry signal and is back at its receive, where it performs the next
\* reload and handles later notifications; it is never blocked for good.
RetryAfterFailedSwap == (pc[Watcher] = "w_retry_send") ~> (pc[Watcher] = "w_wait")

LoadFailureStep ==
    /\ ReloadPrefixStep
    /\ (LoadStep /\ wlog' = "loaderr") =>
           /\ pool' = pool
           /\ session' = session
           /\ lastHash' = lastHash
           /\ initialised' = initialised
           /\ UNCHANGED <<poolVars, connVars, sessVars>>
           /\ pc'[Watcher] = "w_wait"

\* C15: when loading the config fails while the watcher handles a change
\* notification, the active pool (or session), the recorded hash and the
\* initialised flag stay as they are, no pool is closed or built, and the
\* watcher is back at its receive for the next notification.
LoadFailureHarmless == [][LoadFailureStep]_vars

\* C15 witness: the watcher's latest reload failed to load the config, a
\* changed config is waiting to be applied, and the next notification is
\* there for the watcher to handle.
LoadFailureWitness ==
    /\ wlog = "loaderr"
    /\ pc[Watcher] = "w_wait"
    /\ initialised
    /\ hash(curCfg) # lastHash
    /\ notify

ExecuteAtomicallyStep ==
    \A t \in Callers :
        (ret'[t] = "notimpl" /\ ret[t] # "notimpl") =>
            /\ \A u \in Callers \ {t} : ret'[u] = ret[u]
            /\ UNCHANGED <<envVars, execVars, poolVars, connVars, sessVars, pc, newConfig,
                           handleVars, lastIn, wlog, pairs, callSess, regVars>>

\* C16: ExecuteAtomically can be called in every state of the executor,
\* uninitialised or ready, returns the "not implemented" error, and changes
\* nothing: it does not initialise the executor, start the watcher, check
\* out or dial a connection, or touch any pool queue.
ExecuteAtomicallyNotImplemented ==
    /\ [](\A t \in Callers : pc[t] = "idle" => ENABLED ExecuteAtomically(t))
    /\ [][ExecuteAtomicallyStep]_vars

\* C16 witness: ExecuteAtomically has returned its error on an executor
\* that is still uninitialised, with no watcher, pool or session.
ExecuteAtomicallyWitness ==
    \E t \in Callers :
        /\ ret[t] = "notimpl"
        /\ pc[t] = "idle"
        /\ ~initialised
        /\ watchers = 0
        /\ npools = 0
        /\ nsessions = 0

\* Executors constructed so far for keyspace ks.
ConstructedFor(ks) == {e \in 1 .. nexecs : execKs[e] = ks}

RegistryInv ==
    /\ \A ks \in Keyspaces :
          /\ Cardinality(ConstructedFor(ks)) <= 1
          /\ ksConnections[ks] # Nil => ConstructedFor(ks) = {ksConnections[ks]}
    /\ \A t \in Callers :
          (rpc[t] = "idle" /\ rks[t] # 0) =>
              /\ rret[t] # Nil
              /\ rret[t] = ksConnections[rks[t]]

RegistryStep ==
    \A ks \in Keyspaces :
        /\ ksConnections[ks] # Nil => ksConnections'[ks] = ksConnections[ks]
        /\ ksConnections'[ks] # ksConnections[ks] =>
              /\ \E t \in Callers : rpc[t] = "locked" /\ rks[t] = ks
              /\ \A k2 \in Keyspaces \ {ks} : ksConnections'[k2] = ksConnections[k2]

\* C17: under every interleaving of gocqlConnector calls, every call for a
\* name returns the one object registered for it; at most one executor is
\* ever constructed and stored per name; an entry, once there, is never
\* overwritten or removed; and a store leaves the other names' entries
\* alone.
RegistryUniqueness == []RegistryInv /\ [][RegistryStep]_vars

\* C17 witness: two callers raced for the same name: one has stored and
\* returned the connection, the other missed it on the fast path and now
\* holds the write lock, finding the entry present.
RegistryUniquenessWitness ==
    \E t \in Callers : \E u \in Callers \ {t} :
        /\ rks[t] = rks[u]
        /\ rpc[t] = "idle"
        /\ rret[t] # Nil
        /\ rpc[u] = "locked"
        /\ ksConnections[rks[u]] = rret[t]
        /\ nexecs = 1

\* Positions of a call that has read the active pool and not yet returned.
InCall == {"select1", "select2", "connect", "track", "putback", "use", "checkin"}

PairingInv ==
    \A t \in Callers :
        /\ pc[t] = "select1" => pairs[t] = <<0, 0>>
        /\ pc[t] \in InCall \ {"select1"} => pairs[t] = <<1, 0>>

PairingStep ==
    \A t \in Callers :
        /\ (pc[t] \in InCall /\ pc'[t] = "idle") =>
              /\ pc[t] = "checkin"
              /\ pairs'[t] = <<1, 1>>
              /\ hconn[t] # Nil =>
                    hostConnsEstablished'[localPool[t]][hhost[t]] =
                        Append(hostConnsEstablished[localPool[t]][hhost[t]], hconn[t])
        /\ (pc[t] = "use" /\ pc'[t] # "use") =>
              /\ pc'[t] = "checkin"
              /\ hconn'[t] = hconn[t]
              /\ hhost'[t] = hhost[t]
              /\ localPool'[t] = localPool[t]

\* The order in which a call passes through its positions.
CallOrder == <<"select1", "select2", "connect", "track", "putback", "use", "checkin", "idle">>

Rank(position) == CHOOSE i \in 1 .. Len(CallOrder) : CallOrder[i] = position

\* A call in progress can always take its next step, and every step of it
\* moves it forward in CallOrder: it reaches its return after at most seven
\* steps of its own.
CallNeverBlocked == \A t \in Callers : pc[t] \in InCall => ENABLED CallStep(t)

CallAdvances ==
    \A t \in Callers : (pc[t] \in InCall /\ pc'[t] # pc[t]) => Rank(pc'[t]) > Rank(pc[t])

\* C18: every Query/Execute that has got past initialisation performs one
\* checkout and, on every return path (session construction failure,
\* statement failure, success, nil connection), returns only after one
\* check-in of that same handle on the same pool; and it does get there:
\* it is never blocked and every step takes it closer to its return, so no
\* slot taken from a queue stays with a call for ever.
CheckoutPairsWithCheckin ==
    /\ [](PairingInv /\ CallNeverBlocked)
    /\ [][PairingStep /\ CallAdvances]_vars

\* C18 witness: both callers have returned from a call after one checkout
\* and one check-in each, one with an error and a nil connection's mark,
\* the other with success.
CheckoutPairsWitness ==
    \E t \in Callers : \E u \in Callers :
        /\ pc[t] = "idle" /\ pairs[t] = <<1, 1>> /\ ret[t] = "err"
        /\ pc[u] = "idle" /\ pairs[u] = <<1, 1>> /\ ret[u] = "ok"

\* C19: a Query/Execute that has built a per-call session around its
\* connection has closed that session by the time it returns: no session
\* built for a call is open after the call has returned.
PerCallSessionClosed == \A t \in Callers : pc[t] = "idle" => callSess[t] # "open"

\* C20: whenever the executor's exclusive lock is not held, lastHash is the
\* hash of the configuration the active pool or session was built from,
\* which is the configuration the executor has stored.
HashMatchesActive ==
    rwLock = Free =>
        /\ (impl = "pool" /\ pool # Nil) => lastHash = hash(poolCfg[pool])
        /\ (impl = "session" /\ session # Nil) => lastHash = hash(cfg)

\* Positions of a thread inside the pool executor's switchConfig, after
\* e.Lock().
InSwap == {"sw_new", "sw_init", "sw_unlock"}

\* Swaps are totally ordered: at most one thread is inside switchConfig, it
\* holds the exclusive lock, and nobody else holds it.
SwapsOrdered ==
    impl = "pool" =>
        /\ Cardinality({th \in Threads : pc[th] \in InSwap}) <= 1
        /\ \A th \in Threads : pc[th] \in InSwap <=> rwLock = th

SwapStep ==
    impl = "pool" =>
        \* entering the swap closes the old pool, and that pool only
        /\ (pc[Watcher] = "sw_lock" /\ pc'[Watcher] = "sw_new") =>
              /\ pool # Nil
              /\ closed' = closed \cup Range(activeConns[pool])
              /\ activeConns' = [activeConns EXCEPT ![pool] = <<>>]
              /\ npools' = npools
        \* the swap ends with a pool built from the new config as the active
        \* one, the new hash recorded, and one pool more than when it began
        /\ (pc[Watcher] = "sw_unlock" /\ pc'[Watcher] # "sw_unlock") =>
              /\ pc'[Watcher] = "w_wait"
              /\ rwLock' = Free
              /\ pool' = pool
              /\ pool = npools
              /\ poolInit[pool]
              /\ poolCfg[pool] = newConfig[Watcher]
              /\ lastHash' = hash(newConfig[Watcher])
        \* pools are built only inside a swap
        /\ npools' # npools =>
              \E th \in Threads : pc[th] = "sw_new" /\ rwLock = th /\ npools' = npools + 1

\* The swap the watcher has decided on is completed: the active pool is
\* built from the new config and the new hash is recorded.
SwapCompletes ==
    \A c \in 1 .. NumCfgs :
        (impl = "pool" /\ pc[Watcher] = "sw_lock" /\ newConfig[Watcher] = c)
            ~> (/\ pc[Watcher] = "w_wait"
                /\ pool # Nil
                /\ poolInit[pool]
                /\ poolCfg[pool] = c
                /\ lastHash = hash(c))

\* C21: under fair scheduling of the watcher, whenever it has received a
\* notification, loaded the config and found its hash different from the
\* recorded one, the executor eventually has an active pool built from the
\* new config with the new hash recorded; that swap closed the old pool and
\* no other; and swaps are totally ordered, each running under the
\* exclusive lock from its first change to its last.
EffectiveChangeApplied ==
    /\ []SwapsOrdered
    /\ [][SwapStep]_vars
    /\ SwapCompletes

\* C21 witness: the watcher has completed a swap: the active pool is the
\* second one, built from the current config, whose hash is recorded; the
\* first pool's connection was closed by the swap and the pool tracks none.
EffectiveChangeWitness ==
    /\ impl = "pool"
    /\ pc[Watcher] = "w_wait"
    /\ pool = 2
    /\ poolCfg[pool] = curCfg
    /\ lastHash = hash(curCfg)
    /\ activeConns[1] = <<>>
    /\ \E c \in 1 .. nconns : connPool[c] = 1 /\ c \in closed

\* Every connection in a queue or in the tracked list of pool p was dialed
\* by p (for the host of that queue), and a handle's connection was dialed
\* by the pool the caller works on.
ConnsStayHome ==
    /\ \A p \in PoolIds :
          /\ \A h \in Hosts : \A c \in Range(hostConnsEstablished[p][h]) :
                c # Nil => (connPool[c] = p /\ connHost[c] = h)
          /\ \A c \in Range(activeConns[p]) : connPool[c] = p
    /\ \A t \in Callers : hconn[t] # Nil => connPool[hconn[t]] = localPool[t]

\* A call keeps the pool pointer it read until it returns, and a dialed
\* connection never changes its pool.
PoolPointerStep ==
    /\ \A t \in Callers : (localPool[t] # Nil /\ pc'[t] # "idle") => localPool'[t] = localPool[t]
    /\ \A c \in 1 .. nconns : connPool'[c] = connPool[c]

\* C22: across every interleaving with config swaps, a Query/Execute
\* checks its handle in to the pool it checked out from, so a connection
\* dialed by pool P is only ever in P's queues and P's tracked list, never
\* in those of the pool that replaced P.
NoMigration == []ConnsStayHome /\ [][PoolPointerStep]_vars

\* C22 witness: after a swap to the second pool, an open connection of the
\* first pool (dialed and checked in by a call that had read the first
\* pool) sits in the first pool's established queue, while the second pool
\* holds a connection of its own.
NoMigrationWitness ==
    /\ pool = 2
    /\ \E h \in Hosts : \E c \in Range(hostConnsEstablished[1][h]) : c \notin closed
    /\ \E h \in Hosts : hostConnsEstablished[2][h] # <<>>

ClosedEntryStep ==
    \A t \in Callers :
        \* the dequeued entry is a closed connection: checkout dials, and the
        \* handle gets the fresh connection or nil; no queue gets the old one
        /\ (pc[t] = "connect" /\ pc'[t] # "connect" /\ hconn[t] # Nil /\ hconn[t] \in closed) =>
              /\ \/ /\ hconn'[t] = Nil
                    /\ pc'[t] = "putback"
                    /\ nconns' = nconns
                 \/ /\ hconn'[t] = nconns + 1
                    /\ nconns' = nconns + 1
                    /\ hconn'[t] \notin closed'
                    /\ pc'[t] = "track"
              /\ UNCHANGED <<hostConnsEstablished, hostConnsUnestablished>>
        \* a dequeued connection that is handed out as it is was open when
        \* checkout looked at it
        /\ (pc[t] = "connect" /\ pc'[t] = "use" /\ hconn[t] # Nil /\ hconn'[t] = hconn[t]) =>
              hconn[t] \notin closed

\* What goes back onto the unestablished queue is a nil token.
PutBackIsNil == \A t \in Callers : pc[t] = "putback" => hconn[t] = Nil

\* C23: when the entry checkout has dequeued from the established queue is
\* a closed connection, checkout dials as for an empty token; the handle it
\* returns carries the freshly dialed connection or nil, never the closed
\* one, and the closed connection is not put back on any queue.
NoClosedHandout == []PutBackIsNil /\ [][ClosedEntryStep]_vars

\* C23 witness: a checkout has replaced a closed connection: the caller
\* holds a freshly dialed connection for the host, the closed one is in no
\* queue and in no handle, and every other slot of the host is still an
\* unestablished token.
NoClosedHandoutWitness ==
    \E t \in Callers : \E c \in 1 .. nconns :
        /\ pc[t] = "use"
        /\ logged[t] = "new"
        /\ hconn[t] # Nil
        /\ hconn[t] # c
        /\ c \in closed
        /\ connPool[c] = localPool[t]
        /\ connHost[c] = hhost[t]
        /\ localPool[t] = pool
        /\ \A p \in PoolIds : \A h \in Hosts : c \notin Range(hostConnsEstablished[p][h])
        /\ \A u \in Callers : hconn[u] # c
        /\ Len(hostConnsUnestablished[pool][hhost[t]]) = NumConns(pool) - 1

====
